---- MODULE Spec2Model ----
(***************************************************************************)
(* Model of src/src/models.py: CenteredLinearMap, SkipConn and the feature *)
(* expansion wrappers Fourier, Fourier2D and Taylor.                       *)
(*                                                                         *)
(* Numbers are exact fractions <<n, d>> (d > 0, lowest terms).  A tensor   *)
(* is described by its batch size, its device and one representative row;  *)
(* all operations of the source act on every row alike.  A row entry is a  *)
(* record [k, a, b]: k = "num" is the number a; "sin"/"cos" is the         *)
(* function of the non-zero argument a; "cc","cs","sc","ss" is a product   *)
(* of two of them with arguments a and b.  For a rational argument other   *)
(* than 0 the sine and cosine are never 0 or 1, so the terms are exact.    *)
(* Learnable weights are arbitrary; a layer's activation is tracked by its *)
(* width and by the layer that produced it, and the output layer's result  *)
(* y is any value of YValues.                                              *)
(***************************************************************************)
EXTENDS Integers, Sequences, FiniteSets, TLC

VARIABLES cudaAvailable, linmap, mapArgs, lastMap, model, ctor, pc, fault,
          arg, x, cur, prev, li, recv, trace, cudaReq, out

vars == <<cudaAvailable, linmap, mapArgs, lastMap, model, ctor, pc, fault,
          arg, x, cur, prev, li, recv, trace, cudaReq, out>>

(* ------------------------------ bounds --------------------------------- *)
MaxHidden == 2
MaxLayers == 2
MaxOrder == 2
MaxInit == 2
MaxSeed == 1
MaxY == 3

(* ---------------------------- fractions -------------------------------- *)
Abs(i) == IF i < 0 THEN -i ELSE i

RECURSIVE Gcd(_, _)
Gcd(a, b) == IF b = 0 THEN a ELSE Gcd(b, a % b)

Frac(n, d) ==
    LET g == Gcd(Abs(n), Abs(d))
        s == IF d < 0 THEN -1 ELSE 1
    IN  <<(s * n) \div g, (s * d) \div g>>

Zero == <<0, 1>>
One == <<1, 1>>
Two == <<2, 1>>
FAdd(p, q) == Frac(p[1] * q[2] + q[1] * p[2], p[2] * q[2])
FSub(p, q) == Frac(p[1] * q[2] - q[1] * p[2], p[2] * q[2])
FMul(p, q) == Frac(p[1] * q[1], p[2] * q[2])
FDiv(p, q) == Frac(p[1] * q[2], p[2] * q[1])
FNeg(p) == <<-p[1], p[2]>>
FLeq(p, q) == p[1] * q[2] <= q[1] * p[2]

RECURSIVE FPow(_, _)
FPow(p, n) == IF n = 0 THEN One ELSE FMul(p, FPow(p, n - 1))

(* ------------------------------ values --------------------------------- *)
Num(f) == [k |-> "num", a |-> f, b |-> Zero]
IsNum(v) == v.k = "num"

\* torch.sin(a), torch.cos(a) and the products cos/sin(a) * cos/sin(b)
SinOf(a) == [k |-> "sin", a |-> a, b |-> Zero]
CosOf(a) == [k |-> "cos", a |-> a, b |-> Zero]
Cross(kind, a, b) == [k |-> kind, a |-> a, b |-> b]

Known(f) == [known |-> TRUE, v |-> f]
Unknown == [known |-> FALSE, v |-> Zero]

\* The number an entry holds, where it is rational: sin 0 = 0, cos 0 = 1,
\* and a product with a factor 0 is 0.
TrigValue(fn, a) ==
    IF a = Zero THEN Known(IF fn = "c" THEN One ELSE Zero) ELSE Unknown

ProductValue(p, q) ==
    IF p.known /\ q.known THEN Known(FMul(p.v, q.v))
    ELSE IF (p.known /\ p.v = Zero) \/ (q.known /\ q.v = Zero) THEN Known(Zero)
    ELSE Unknown

Value(v) ==
    CASE v.k = "num" -> Known(v.a)
      [] v.k = "sin" -> TrigValue("s", v.a)
      [] v.k = "cos" -> TrigValue("c", v.a)
      [] v.k = "cc" -> ProductValue(TrigValue("c", v.a), TrigValue("c", v.b))
      [] v.k = "cs" -> ProductValue(TrigValue("c", v.a), TrigValue("s", v.b))
      [] v.k = "sc" -> ProductValue(TrigValue("s", v.a), TrigValue("c", v.b))
      [] v.k = "ss" -> ProductValue(TrigValue("s", v.a), TrigValue("s", v.b))
      [] OTHER -> Unknown

\* m*v + b for one entry v
VAffine(m, v, b) ==
    IF IsNum(v) THEN Num(FAdd(FMul(m, v.a), b))
    ELSE [k |-> "affine", a |-> m, b |-> b]

(* ------------------------- CenteredLinearMap --------------------------- *)
NoMap == [none |-> TRUE]
None == [some |-> FALSE, v |-> Zero]
Some(f) == [some |-> TRUE, v |-> f]

Tensor(n, dev, row) == [n |-> n, dev |-> dev, row |-> row]
Width(t) == Len(t.row)

\* x_m / y_m of __init__: size/(max - min) when a size is given, else 1.
MapScale(size, lo, hi) ==
    IF size.some THEN FDiv(size.v, FSub(hi, lo)) ELSE One

\* variant of MapOffset: the span max - min in place of the sum min + max
MapOffsetSpan(lo, hi, m) == FDiv(FMul(FNeg(FSub(hi, lo)), m), Two)

\* x_b / y_b of __init__: -(min + max)*m/2
MapOffset(lo, hi, m) == FDiv(FMul(FNeg(FAdd(lo, hi)), m), Two)

\* the division of __init__ raises ZeroDivisionError when max = min
MapInitFaults(a) ==
    \/ a.x_size.some /\ a.xmax = a.xmin
    \/ a.y_size.some /\ a.ymax = a.ymin

CenteredLinearMapInit(a) ==
    LET x_m == MapScale(a.x_size, a.xmin, a.xmax)
        y_m == MapScale(a.y_size, a.ymin, a.ymax)
        x_b == MapOffset(a.xmin, a.xmax, x_m)
        y_b == MapOffset(a.ymin, a.ymax, y_m)
    IN  [m |-> <<x_m, y_m>>, b |-> <<x_b, y_b>>,
         use_cuda |-> a.use_cuda, dev |-> "cpu"]

\* variant of MapPlaced: self.m = self.b.cuda()
MapPlacedSwapped(lm) == [lm EXCEPT !.dev = "cuda", !.m = lm.b]

\* self.m = self.m.cuda(); self.b = self.b.cuda()
MapPlaced(lm) == [lm EXCEPT !.dev = "cuda"]

\* self.m*x + self.b on one row: a row of width 1 broadcasts against the
\* two entries of m and b, a row of width 2 is mapped entry by entry.
MapApply(lm, row) ==
    [i \in 1..2 |-> VAffine(lm.m[i], row[IF Len(row) = 1 THEN 1 ELSE i], lm.b[i])]

\* One call of map(x): the fault it ends with ("none" if it returns), the
\* map after the call, whether it asked for the accelerator, and the result.
MapCallResult(lm, t, avail) ==
    LET req == lm.use_cuda
        placed == IF req /\ avail THEN MapPlaced(lm) ELSE lm
        flt == IF req /\ ~avail THEN "NoCuda"
               ELSE IF placed.dev # t.dev THEN "DeviceMismatch"
               ELSE IF Width(t) \notin {1, 2} THEN "ShapeMismatch"
               ELSE "none"
    IN  [fault |-> flt, lm |-> placed, req |-> req,
         x |-> IF flt = "none" THEN Tensor(t.n, t.dev, MapApply(placed, t.row)) ELSE t]

(* ------------------------------ SkipConn ------------------------------- *)
NoModel == [none |-> TRUE]
Empty == [w |-> 0, id |-> -1]

\* variant of HiddenInSize: the first layer sized like the later ones
HiddenInSizeUniform(i, out_size, init_size) == out_size * 2 + init_size

\* in_size of hidden layer i (0-based) in __init__
HiddenInSize(i, out_size, init_size) ==
    IF i > 0 THEN out_size * 2 + init_size ELSE out_size + init_size

\* in_features of outLayer in __init__
OutInSize(out_size, init_size) == out_size * 2 + init_size

SkipConnInit(hidden_size, num_hidden_layers, init_size, lm, activation, use_cuda) ==
    [hidden_size |-> hidden_size,
     init_size |-> init_size,
     inLayer |-> [inF |-> init_size, outF |-> hidden_size],
     hidden |-> [i \in 1..num_hidden_layers |->
                   [inF |-> HiddenInSize(i - 1, hidden_size, init_size),
                    outF |-> hidden_size]],
     outLayer |-> [inF |-> OutInSize(hidden_size, init_size), outF |-> 1],
     activation |-> activation,
     linmap |-> lm,
     use_cuda |-> use_cuda]

WeightDev(net) == IF net.use_cuda THEN "cuda" ELSE "cpu"

\* torch.cat([cur, prev, x], 1): its width, and which activations it holds
Concat(c, p, t) == [w |-> c.w + p.w + Width(t), cur |-> c.id, prev |-> p.id]

\* variant of HiddenStep: prev = cur placed after cur is overwritten
HiddenStepLate(c, p, t, i, outF) ==
    [combined |-> Concat(c, p, t),
     prev |-> [w |-> outF, id |-> i + 1],
     cur |-> [w |-> outF, id |-> i + 1]]

\* One iteration of the loop over self.hidden, at hidden layer i (0-based):
\* combined = cat(cur, prev, x); prev = cur; cur = activation(layer(combined))
HiddenStep(c, p, t, i, outF) ==
    [combined |-> Concat(c, p, t),
     prev |-> c,
     cur |-> [w |-> outF, id |-> i + 1]]

\* tanh in hundredths, rounded to nearest: tanh 1 = 0.76, tanh 2 = 0.96,
\* and the rounded value is 1 from |y| = 3 on
TanhCenti == <<76, 96>>
Tanh(y) ==
    LET v == IF Abs(y) > Len(TanhCenti) THEN One ELSE Frac(TanhCenti[Abs(y)], 100)
    IN  IF y = 0 THEN Zero ELSE IF y < 0 THEN FNeg(v) ELSE v

\* variant of Squash: the division by 2 left out
SquashNoHalf(y) == FAdd(Tanh(y), One)

\* (self.tanh(y)+1)/2
Squash(y) == FDiv(FAdd(Tanh(y), One), Two)

(* ------------------------- feature expansion --------------------------- *)
\* variant of InnerInitSize: Fourier2D sized by Fourier's formula
InnerInitSizeLinear(variant, order) ==
    IF variant = "Taylor" THEN order * 2 + 2 ELSE order * 4 + 2

\* init_size handed to the inner SkipConn by each wrapper's __init__
InnerInitSize(variant, order) ==
    CASE variant = "Fourier" -> order * 4 + 2
      [] variant = "Fourier2D" -> (order * order * 4) + 2
      [] variant = "Taylor" -> order * 2 + 2

\* variant of InnerLinmap: the wrapper hands its linmap to the inner SkipConn
InnerLinmapPassed(variant, withMap) == withMap

\* The wrappers build their inner SkipConn without a linmap argument.
InnerLinmap(variant, withMap) ==
    IF variant = "SkipConn" THEN withMap ELSE FALSE

\* Fourier and Fourier2D pass use_cuda on; Taylor leaves SkipConn's default.
InnerUseCuda(variant, use_cuda) ==
    IF variant = "Taylor" THEN TRUE ELSE use_cuda

InnerActivation(variant) ==
    IF variant \in {"Fourier", "Fourier2D"} THEN "LeakyReLU" ELSE "GELU"

\* variant of Fourier2DOrders: the orders 1..K of Fourier
Fourier2DOrdersFromOne(order) == [i \in 1..order |-> i]

\* self.orders
FourierOrders(order) == [i \in 1..order |-> i]
Fourier2DOrders(order) == [i \in 1..order |-> i - 1]

Scaled(k, v) == FMul(<<k, 1>>, v.a)

RECURSIVE Flatten(_)
Flatten(ss) == IF ss = <<>> THEN <<>> ELSE Head(ss) \o Flatten(Tail(ss))

\* Fourier.forward: per input entry v, sin(k v) for the orders k, then
\* cos(k v) for the orders k, then v; the entries' blocks are flattened.
FourierFeatures(orders, row) ==
    Flatten([j \in 1..Len(row) |->
               [i \in 1..Len(orders) |-> SinOf(Scaled(orders[i], row[j]))]
               \o [i \in 1..Len(orders) |-> CosOf(Scaled(orders[i], row[j]))]
               \o <<row[j]>>])

\* the four features appended for one pair (n, m) of orders
CrossTerms(n, m, row) ==
    << Cross("cc", Scaled(n, row[1]), Scaled(m, row[2])),
       Cross("cs", Scaled(n, row[1]), Scaled(m, row[2])),
       Cross("sc", Scaled(n, row[1]), Scaled(m, row[2])),
       Cross("ss", Scaled(n, row[1]), Scaled(m, row[2])) >>

\* Fourier2D.forward: features = [x], then the loops over n and m
Fourier2DFeatures(orders, row) ==
    row \o Flatten([i \in 1..Len(orders) |->
                     Flatten([j \in 1..Len(orders) |->
                                CrossTerms(orders[i], orders[j], row)])])

\* Taylor.forward: series = [x], then x**n for n in 1..taylor_order
TaylorFeatures(order, row) ==
    row \o Flatten([n \in 1..order |->
                     [j \in 1..Len(row) |-> Num(FPow(row[j].a, n))]])

\* The feature-expansion stage of a wrapper's forward: the fault it ends
\* with ("none" if it completes) and the feature tensor.
Expansion(mdl, t) ==
    LET ordersDev == IF mdl.use_cuda THEN "cuda" ELSE "cpu"
        flt == CASE mdl.variant = "Fourier" ->
                      IF ordersDev # t.dev THEN "DeviceMismatch" ELSE "none"
                 [] mdl.variant = "Fourier2D" ->
                      IF mdl.order = 0 THEN "none"
                      ELSE IF ordersDev # t.dev THEN "DeviceMismatch"
                      ELSE IF Width(t) < 2 THEN "IndexError"
                      ELSE "none"
                 [] OTHER -> "none"
        row == CASE mdl.variant = "Fourier" ->
                      FourierFeatures(FourierOrders(mdl.order), t.row)
                 [] mdl.variant = "Fourier2D" ->
                      Fourier2DFeatures(Fourier2DOrders(mdl.order), t.row)
                 [] OTHER -> TaylorFeatures(mdl.order, t.row)
    IN  [fault |-> flt,
         x |-> IF flt = "none" THEN Tensor(t.n, t.dev, row) ELSE t]

(* ------------------------------ inputs --------------------------------- *)
Variants == {"SkipConn", "Fourier", "Fourier2D", "Taylor"}
UseCudaArgs == {"default", "on", "off"}
YValues == (-MaxY)..MaxY

SampleCoord(s, i) == Frac(s * (2 * i - 3), 2)
Batch(s, w, dev) == Tensor(s + 1, dev, [i \in 1..w |-> Num(SampleCoord(s, i))])
Batches(avail) ==
    {Batch(s, w, dev) : s \in 0..MaxSeed, w \in 1..(MaxInit + 1),
                        dev \in IF avail THEN {"cpu", "cuda"} ELSE {"cpu"}}

MapArgs(xr, yr, xs, ys, uc) ==
    [xmin |-> xr[1], xmax |-> xr[2], ymin |-> yr[1], ymax |-> yr[2],
     x_size |-> xs, y_size |-> ys, use_cuda |-> uc]
DefaultX == <<Frac(-5, 2), One>>
DefaultY == <<Frac(-11, 10), Frac(11, 10)>>
XRanges == {DefaultX, <<Zero, Two>>, <<One, One>>}
YRanges == {DefaultY, <<FNeg(One), Frac(3, 1)>>}
Sizes == {None, Some(Zero), Some(Frac(4, 1))}
MapArgsAll ==
    {MapArgs(xr, yr, xs, ys, uc) :
        xr \in XRanges, yr \in YRanges, xs \in Sizes, ys \in Sizes, uc \in BOOLEAN}
MapArgsFew ==
    {MapArgs(DefaultX, DefaultY, Some(Frac(4, 1)), None, uc) : uc \in BOOLEAN}

(* ------------------------------- state --------------------------------- *)
NoTensor == Tensor(0, "cpu", <<>>)
NoCall == [none |-> TRUE]
NoArgs == [none |-> TRUE]

Init ==
    /\ cudaAvailable \in BOOLEAN
    /\ linmap = NoMap
    /\ mapArgs = NoArgs
    /\ lastMap = NoCall
    /\ model = NoModel
    /\ ctor = NoCall
    /\ pc = "idle"
    /\ fault = "none"
    /\ arg = NoTensor
    /\ x = NoTensor
    /\ cur = Empty
    /\ prev = Empty
    /\ li = 0
    /\ recv = <<>>
    /\ trace = <<>>
    /\ cudaReq = FALSE
    /\ out = NoTensor

fwdVars == <<ctor, arg, x, cur, prev, li, recv, trace, out>>

\* CenteredLinearMap(...)
NewMap(args) ==
    /\ pc = "idle"
    /\ model = NoModel
    /\ \E a \in args :
         IF MapInitFaults(a)
         THEN /\ pc' = "fault"
              /\ fault' = "ZeroDivisionError"
              /\ UNCHANGED <<linmap, mapArgs, lastMap>>
         ELSE /\ linmap' = CenteredLinearMapInit(a)
              /\ mapArgs' = a
              /\ lastMap' = NoCall
              /\ UNCHANGED <<pc, fault>>
    /\ UNCHANGED <<cudaAvailable, model, cudaReq, fwdVars>>

\* linmap.map(t), called directly
MapCall ==
    /\ pc = "idle"
    /\ linmap # NoMap
    /\ \E t \in Batches(cudaAvailable) :
       LET r == MapCallResult(linmap, t, cudaAvailable)
       IN  /\ linmap' = r.lm
           /\ lastMap' = [x |-> t, fault |-> r.fault, res |-> r.x]
           /\ fault' = r.fault
           /\ pc' = IF r.fault = "none" THEN "mapped" ELSE "fault"
    /\ UNCHANGED <<cudaAvailable, mapArgs, model, cudaReq, fwdVars>>

\* SkipConn(...), Fourier(...), Fourier2D(...), Taylor(...): p is init_size
\* for SkipConn and the order for the wrappers; uc is the use_cuda argument.
NewModel(variants) ==
    /\ pc = "idle"
    /\ model = NoModel
    /\ \E variant \in variants, hidden_size \in 1..MaxHidden,
          num_hidden_layers \in 0..MaxLayers, uc \in UseCudaArgs,
          withMap \in IF linmap = NoMap THEN {FALSE} ELSE BOOLEAN :
       \E p \in IF variant = "SkipConn" THEN 1..MaxInit ELSE 0..MaxOrder :
       LET use_cuda == uc # "off"
           inner_cuda == InnerUseCuda(variant, use_cuda)
           init_size == IF variant = "SkipConn" THEN p ELSE InnerInitSize(variant, p)
           inner == SkipConnInit(hidden_size, num_hidden_layers, init_size,
                                 InnerLinmap(variant, withMap),
                                 InnerActivation(variant), inner_cuda)
           flt == IF variant = "Taylor" /\ uc # "default" THEN "TypeError"
                  ELSE IF inner_cuda /\ ~cudaAvailable THEN "NoCuda"
                  ELSE "none"
       IN  /\ ctor' = [variant |-> variant, use_cuda |-> uc]
           /\ fault' = flt
           /\ pc' = IF flt = "none" THEN "idle" ELSE "fault"
           /\ cudaReq' = (flt # "TypeError" /\ inner_cuda)
           /\ model' = IF flt # "none" THEN NoModel
                       ELSE [variant |-> variant,
                             order |-> IF variant = "SkipConn" THEN 0 ELSE p,
                             wrapLinmap |-> (variant # "SkipConn" /\ withMap),
                             use_cuda |-> inner_cuda,
                             inner |-> inner]
    /\ UNCHANGED <<cudaAvailable, linmap, mapArgs, lastMap,
                   arg, x, cur, prev, li, recv, trace, out>>

\* model(t): the call enters forward
Forward ==
    /\ pc = "idle"
    /\ model # NoModel
    /\ \E t \in Batches(cudaAvailable) : arg' = t /\ x' = t
    /\ pc' = IF model.variant = "SkipConn" THEN "skip" ELSE "wrap"
    /\ UNCHANGED <<cudaAvailable, linmap, mapArgs, lastMap, model, ctor, fault,
                   cur, prev, li, recv, trace, cudaReq, out>>

\* "if self._linmap: x = self._linmap.map(x)" at position from, going to position to
ApplyLinmap(configured, from, to) ==
    /\ pc = from
    /\ IF configured
       THEN LET r == MapCallResult(linmap, x, cudaAvailable)
            IN  /\ linmap' = r.lm
                /\ lastMap' = [x |-> x, fault |-> r.fault, res |-> r.x]
                /\ cudaReq' = (cudaReq \/ r.req)
                /\ fault' = r.fault
                /\ pc' = IF r.fault = "none" THEN to ELSE "fault"
                /\ x' = r.x
                /\ trace' = IF r.fault = "none" THEN Append(trace, "map") ELSE trace
       ELSE /\ pc' = to
            /\ UNCHANGED <<linmap, lastMap, cudaReq, fault, x, trace>>
    /\ UNCHANGED <<cudaAvailable, mapArgs, model, ctor, arg, cur, prev, li, recv, out>>

\* first statement of Fourier.forward, Fourier2D.forward, Taylor.forward
WrapMap == ApplyLinmap(model.wrapLinmap, "wrap", "expand")

\* the rest of the wrapper's forward up to the call of the inner model
Expand ==
    /\ pc = "expand"
    /\ LET r == Expansion(model, x)
       IN  /\ fault' = r.fault
           /\ pc' = IF r.fault = "none" THEN "skip" ELSE "fault"
           /\ x' = r.x
           /\ trace' = IF r.fault = "none" THEN Append(trace, "expand") ELSE trace
    /\ UNCHANGED <<cudaAvailable, linmap, mapArgs, lastMap, model, ctor,
                   arg, cur, prev, li, recv, cudaReq, out>>

\* first statement of SkipConn.forward
SkipMap == ApplyLinmap(model.inner.linmap, "skip", "inLayer")

\* cur = activation(inLayer(x)); prev = torch.tensor([]); prev.cuda()
InLayer ==
    /\ pc = "inLayer"
    /\ LET net == model.inner
           flt == IF x.dev # WeightDev(net) THEN "DeviceMismatch"
                  ELSE IF Width(x) # net.inLayer.inF THEN "ShapeMismatch"
                  ELSE IF net.use_cuda /\ ~cudaAvailable THEN "NoCuda"
                  ELSE "none"
       IN  /\ fault' = flt
           /\ pc' = IF flt = "none" THEN "hidden" ELSE "fault"
           /\ cur' = IF flt = "none" THEN [w |-> net.inLayer.outF, id |-> 0] ELSE cur
           /\ cudaReq' = (cudaReq \/ (net.use_cuda /\ flt \in {"none", "NoCuda"}))
           /\ trace' = IF flt = "none" THEN Append(trace, "inLayer") ELSE trace
    /\ prev' = Empty
    /\ li' = 0
    /\ UNCHANGED <<cudaAvailable, linmap, mapArgs, lastMap, model, ctor, arg, x, recv, out>>

Received(kind, i, c, inF) ==
    [layer |-> kind, idx |-> i, cur |-> c.cur, prev |-> c.prev, w |-> c.w, inF |-> inF]

\* one iteration of "for layer in self.hidden"
HiddenLayer ==
    /\ pc = "hidden"
    /\ li < Len(model.inner.hidden)
    /\ LET layer == model.inner.hidden[li + 1]
           s == HiddenStep(cur, prev, x, li, layer.outF)
           ok == s.combined.w = layer.inF
       IN  /\ recv' = Append(recv, Received("hidden", li, s.combined, layer.inF))
           /\ prev' = s.prev
           /\ fault' = IF ok THEN "none" ELSE "ShapeMismatch"
           /\ pc' = IF ok THEN "hidden" ELSE "fault"
           /\ cur' = IF ok THEN s.cur ELSE cur
           /\ li' = IF ok THEN li + 1 ELSE li
           /\ trace' = IF ok THEN Append(trace, "hidden") ELSE trace
    /\ UNCHANGED <<cudaAvailable, linmap, mapArgs, lastMap, model, ctor, arg, x, cudaReq, out>>

\* y = self.outLayer(cat(cur, prev, x)); return (tanh(y)+1)/2
OutLayer ==
    /\ pc = "hidden"
    /\ li = Len(model.inner.hidden)
    /\ LET layer == model.inner.outLayer
           c == Concat(cur, prev, x)
           ok == c.w = layer.inF
       IN  /\ recv' = Append(recv, Received("out", li, c, layer.inF))
           /\ fault' = IF ok THEN "none" ELSE "ShapeMismatch"
           /\ pc' = IF ok THEN "done" ELSE "fault"
           /\ trace' = IF ok THEN Append(trace, "out") ELSE trace
           /\ IF ok
              THEN \E y \in YValues :
                     out' = Tensor(x.n, x.dev, [i \in 1..layer.outF |-> Num(Squash(y))])
              ELSE out' = out
    /\ UNCHANGED <<cudaAvailable, linmap, mapArgs, lastMap, model, ctor, arg, x, cur, prev,
                   li, cudaReq>>

\* the call has returned or raised; the caller goes on
Return ==
    /\ pc \in {"done", "fault", "mapped"}
    /\ pc' = "idle"
    /\ fault' = "none"
    /\ arg' = NoTensor
    /\ x' = NoTensor
    /\ cur' = Empty
    /\ prev' = Empty
    /\ li' = 0
    /\ recv' = <<>>
    /\ trace' = <<>>
    /\ out' = NoTensor
    /\ lastMap' = NoCall
    /\ ctor' = IF model = NoModel THEN NoCall ELSE ctor
    /\ UNCHANGED <<cudaAvailable, linmap, mapArgs, model, cudaReq>>

\* the caller lets go of the model; the map it referred to lives on
Discard ==
    /\ pc = "idle"
    /\ model # NoModel
    /\ model' = NoModel
    /\ ctor' = NoCall
    /\ cudaReq' = FALSE
    /\ UNCHANGED <<cudaAvailable, linmap, mapArgs, lastMap, pc, fault,
                   arg, x, cur, prev, li, recv, trace, out>>

Next ==
    \/ NewMap(MapArgsFew)
    \/ MapCall
    \/ NewModel(Variants)
    \/ Forward
    \/ WrapMap
    \/ Expand
    \/ SkipMap
    \/ InLayer
    \/ HiddenLayer
    \/ OutLayer
    \/ Return
    \/ Discard

Spec == Init /\ [][Next]_vars

\* CenteredLinearMap on its own, over the wider set of constructor arguments
NextMap ==
    \/ NewMap(MapArgsAll)
    \/ MapCall
    \/ Return

SpecMap == Init /\ [][NextMap]_vars

(* ------------------------------ claims --------------------------------- *)
HasModel == model # NoModel
NumLayers == Len(model.inner.hidden)
PastInLayer == \E i \in 1..Len(trace) : trace[i] = "inLayer"
Expanded == \E i \in 1..Len(trace) : trace[i] = "expand"
MapConfigured == model.wrapLinmap \/ model.inner.linmap

\* the batch that reaches the feature expansion has two axes
TwoAxes ==
    IF model.wrapLinmap THEN Width(arg) \in {1, 2} ELSE Width(arg) = 2

\* C1: a SkipConn with num_hidden_layers = 0 whose input layer accepted the
\* batch completes forward without a fault; its output layer receives
\* concat(cur, prev, x) with cur the input-layer activation and prev empty,
\* of just the width the output layer was built with, and returns [N, 1].
C1_ZeroLayersCompletes ==
    (HasModel /\ model.variant = "SkipConn" /\ NumLayers = 0 /\ PastInLayer) =>
        /\ pc # "fault"
        /\ \A j \in 1..Len(recv) :
              /\ recv[j].layer = "out"
              /\ recv[j].cur = 0
              /\ recv[j].prev = -1
              /\ recv[j].w = recv[j].inF
        /\ pc = "done" => (out.n = arg.n /\ Width(out) = 1)

\* C2: every value a completed forward call of any variant returns lies in
\* the closed interval [0, 1].
C2_OutputInUnitInterval ==
    (HasModel /\ pc = "done") =>
        /\ Width(out) >= 1
        /\ \A i \in 1..Width(out) :
              /\ IsNum(out.row[i])
              /\ FLeq(Zero, out.row[i].a)
              /\ FLeq(out.row[i].a, One)

C2_Witness ==
    /\ HasModel
    /\ pc = "done"
    /\ model.variant = "Taylor"
    /\ out.row[1].a = One

C4_MapFormula ==
    linmap # NoMap =>
        LET a == mapArgs
            lo == <<a.xmin, a.ymin>>
            hi == <<a.xmax, a.ymax>>
            size == <<a.x_size, a.y_size>>
        IN  /\ \A i \in 1..2 :
                 /\ size[i].some => FMul(linmap.m[i], FSub(hi[i], lo[i])) = size[i].v
                 /\ ~size[i].some => linmap.m[i] = One
                 /\ FMul(Two, linmap.b[i]) = FNeg(FMul(FAdd(lo[i], hi[i]), linmap.m[i]))
            /\ (a.xmin = Frac(-5, 2) /\ a.xmax = One /\ ~a.x_size.some) =>
                 (linmap.m[1] = One /\ linmap.b[1] = Frac(3, 4))
            /\ (lastMap # NoCall /\ lastMap.fault = "none") =>
                 \A i \in 1..2 :
                    LET v == lastMap.x.row[IF Width(lastMap.x) = 1 THEN 1 ELSE i]
                    IN  /\ IsNum(lastMap.res.row[i])
                        /\ FSub(lastMap.res.row[i].a, linmap.b[i]) = FMul(linmap.m[i], v.a)

C4_Witness ==
    /\ linmap # NoMap
    /\ mapArgs.x_size.some
    /\ mapArgs.y_size.some
    /\ mapArgs.x_size.v # Zero
    /\ lastMap # NoCall
    /\ lastMap.fault = "none"
    /\ lastMap.x.row[1].a # Zero

\* C5: the feature vector a wrapper builds from a 2-axis batch is as wide as
\* the init_size of its inner SkipConn: 4K+2 for Fourier, 4K*K+2 for
\* Fourier2D, 2(K+1) for Taylor.
C5_FeatureWidth ==
    (HasModel /\ model.variant # "SkipConn" /\ Expanded /\ TwoAxes) =>
        LET K == model.order
        IN  /\ Width(x) = model.inner.init_size
            /\ Width(x) = model.inner.inLayer.inF
            /\ model.variant = "Fourier" => Width(x) = 4 * K + 2
            /\ model.variant = "Fourier2D" => Width(x) = 4 * K * K + 2
            /\ model.variant = "Taylor" => Width(x) = 2 * (K + 1)

C5_Witness ==
    /\ HasModel
    /\ model.variant = "Fourier2D"
    /\ model.order = 2
    /\ pc = "done"
    /\ Width(x) = 18

\* C6: Fourier2D emits the 2 raw components, then for every pair (n, m) of
\* 0..K-1, n outermost, the four terms cos cos, cos sin, sin cos, sin sin of
\* (n*x0, m*x1); at K = 1 that is the values 1, 0, 0, 0 after the 2 raw
\* components, width 6.
C6_Fourier2DTerms ==
    (HasModel /\ model.variant = "Fourier2D" /\ Expanded /\ TwoAxes) =>
        LET K == model.order
            raw == IF model.wrapLinmap THEN lastMap.res.row ELSE arg.row
            kinds == <<"cc", "cs", "sc", "ss">>
        IN  /\ Width(x) = 2 + 4 * K * K
            /\ \A i \in 1..2 : x.row[i] = raw[i]
            /\ \A n \in 0..(K - 1), m \in 0..(K - 1), t \in 1..4 :
                  x.row[2 + 4 * (n * K + m) + t] =
                     [k |-> kinds[t],
                      a |-> FMul(<<n, 1>>, raw[1].a),
                      b |-> FMul(<<m, 1>>, raw[2].a)]
            /\ K = 1 =>
                  /\ Width(x) = 6
                  /\ <<Value(x.row[3]), Value(x.row[4]), Value(x.row[5]), Value(x.row[6])>>
                        = <<Known(One), Known(Zero), Known(Zero), Known(Zero)>>

C6_Witness ==
    /\ HasModel
    /\ model.variant = "Fourier2D"
    /\ model.order = 2
    /\ pc = "done"
    /\ x.row[1].a # Zero
    /\ x.row[18] = Cross("ss", x.row[1].a, x.row[2].a)

\* C7: every variant accepts a use_cuda argument, and a model built with it
\* off, with no linear map or one whose own flag is off, never asks for the
\* accelerator, in construction or in forward.
C7_FlagOffNeverAsks ==
    (ctor # NoCall /\ ctor.use_cuda = "off") =>
        /\ fault # "TypeError"
        /\ (HasModel /\ (MapConfigured => ~linmap.use_cuda)) => ~cudaReq

\* C8: after construction the map's scale and offset never change and the
\* result of map depends on its input alone; a call changes at most the
\* device the two vectors are on, and only towards the accelerator.
C8_MapImmutable ==
    /\ [](linmap # NoMap =>
            /\ linmap.m = CenteredLinearMapInit(mapArgs).m
            /\ linmap.b = CenteredLinearMapInit(mapArgs).b
            /\ (lastMap # NoCall /\ lastMap.fault = "none") =>
                  \A i \in 1..2 :
                     lastMap.res.row[i] =
                        VAffine(CenteredLinearMapInit(mapArgs).m[i],
                                lastMap.x.row[IF Width(lastMap.x) = 1 THEN 1 ELSE i],
                                CenteredLinearMapInit(mapArgs).b[i]))
    /\ [][\/ NewMap(MapArgsFew)
          \/ linmap = NoMap
          \/ /\ linmap' = [linmap EXCEPT !.dev = linmap'.dev]
             /\ linmap.dev = "cuda" => linmap'.dev = "cuda"]_vars

C8_Witness ==
    /\ HasModel
    /\ model.variant = "Taylor"
    /\ model.wrapLinmap
    /\ pc = "done"
    /\ linmap.dev = "cuda"

\* C9: with L >= 1 hidden layers, hidden layer i receives the activations
\* (a_i, a_(i-1)) with a_(-1) empty, and the output layer (a_L, a_(L-1)):
\* prev lags cur by exactly one layer.
C9_PrevLagsCur ==
    (HasModel /\ NumLayers >= 1) =>
        /\ \A j \in 1..Len(recv) :
              /\ recv[j].idx = j - 1
              /\ recv[j].layer = (IF j <= NumLayers THEN "hidden" ELSE "out")
              /\ recv[j].cur = j - 1
              /\ recv[j].prev = j - 2
        /\ pc = "done" => Len(recv) = NumLayers + 1
        /\ pc = "hidden" => (cur.id = li /\ prev.id = li - 1)

C9_Witness ==
    /\ HasModel
    /\ NumLayers = 2
    /\ pc = "done"
    /\ recv[3].layer = "out"
    /\ recv[3].prev = 1

\* C10: a forward call applies a configured map exactly once, before the
\* feature expansion and every layer, and never without one configured; the
\* inner SkipConn of a wrapper has no map.
C10_MapAppliedOnce ==
    HasModel =>
        /\ model.variant # "SkipConn" => ~model.inner.linmap
        /\ \A i \in 1..Len(trace) : trace[i] = "map" => (i = 1 /\ MapConfigured)
        /\ (pc = "done" /\ MapConfigured) => trace[1] = "map"

C10_Witness ==
    /\ HasModel
    /\ model.variant = "Fourier"
    /\ model.wrapLinmap
    /\ pc = "done"
    /\ trace[1] = "map"
    /\ Len(trace) > 4

====
